---------------------------- MODULE Spec2Model ----------------------------
(***************************************************************************)
(* Model of entsoe_client/Parsers/ParserUtils.py: the functions that turn  *)
(* a parsed ENTSO-E response tree into index/data tables.                  *)
(*                                                                         *)
(* Every function of the module is synchronous and keeps nothing between   *)
(* calls, so the state machine is a caller that is idle, makes one call    *)
(* with some input, observes the outcome, and goes back to idle.           *)
(*   op   : the function the caller ran last ("idle" between calls)        *)
(*   arg  : the input it was given, as it was before the call              *)
(*   heap : the Python list objects alive after the call, by reference     *)
(*   ret  : what the call returned or raised                               *)
(***************************************************************************)
EXTENDS Integers, Sequences, FiniteSets, TLC

VARIABLES op, arg, heap, ret

vars == <<op, arg, heap, ret>>

(***************************************************************************)
(* Bounds of the explored inputs.                                          *)
(***************************************************************************)
MaxPos == 4
MaxPoints == 3
MaxLength == 5
MaxSteps == 3
MaxMonths == 14
MaxIndex == 6
MaxChildren == 2
MaxResources == 2

Vals == {"a", "c"}

(***************************************************************************)
(* Python primitives.                                                      *)
(***************************************************************************)
RECURSIVE str(_)
str(n) ==
    IF n < 10 THEN <<n>> ELSE str(n \div 10) \o <<n % 10>>

RECURSIVE int(_)
int(s) ==
    IF Len(s) = 1 THEN s[1]
    ELSE 10 * int(SubSeq(s, 1, Len(s) - 1)) + s[Len(s)]

Max(S) == CHOOSE x \in S : \A y \in S : y <= x

Range(s) == {s[i] : i \in DOMAIN s}

\* A dict that keeps the first value inserted under a key.
RECURSIVE dict_keep_first(_)
dict_keep_first(pairs) ==
    IF pairs = <<>> THEN <<>>
    ELSE LET n == Len(pairs)
         IN  dict_keep_first(SubSeq(pairs, 1, n - 1)) @@ (pairs[n][1] :> pairs[n][2])

\* dict(pairs): a later pair with the same key overwrites the earlier one.
RECURSIVE dict(_)
dict(pairs) ==
    IF pairs = <<>> THEN <<>>
    ELSE LET n == Len(pairs)
         IN  (pairs[n][1] :> pairs[n][2]) @@ dict(SubSeq(pairs, 1, n - 1))

\* list(d.keys()) of dict(pairs): the distinct keys in order of first insertion.
RECURSIVE keys(_)
keys(pairs) ==
    IF pairs = <<>> THEN <<>>
    ELSE LET n == Len(pairs)
             front == keys(SubSeq(pairs, 1, n - 1))
         IN  IF pairs[n][1] \in Range(front) THEN front
             ELSE Append(front, pairs[n][1])

\* list.sort(key=lambda x: int(x['position'])): stable, ascending.
RECURSIVE InsertByPosition(_, _)
InsertByPosition(sorted, rec) ==
    IF sorted = <<>> THEN <<rec>>
    ELSE LET n == Len(sorted)
         IN  IF int(sorted[n]["position"]) <= int(rec["position"])
             THEN Append(sorted, rec)
             ELSE Append(InsertByPosition(SubSeq(sorted, 1, n - 1), rec), sorted[n])

RECURSIVE SortByPosition(_)
SortByPosition(data) ==
    IF data = <<>> THEN <<>>
    ELSE InsertByPosition(SortByPosition(SubSeq(data, 1, Len(data) - 1)),
                          data[Len(data)])

(***************************************************************************)
(* check_period_data_missing                                               *)
(***************************************************************************)
\* {int(pos['position']): pos[key] for pos in data}
RECURSIVE complete_data_of(_, _)
complete_data_of(data, key) ==
    IF data = <<>> THEN <<>>
    ELSE LET n == Len(data)
         IN  (int(data[n]["position"]) :> data[n][key])
                 @@ complete_data_of(SubSeq(data, 1, n - 1), key)

\* The position just before, whether or not a Point carries it.
prev_position_adjacent(complete_data, position) == position - 1

\* max(filter(lambda x: x < position, complete_data), default=0)
prev_position_of(complete_data, position) ==
    LET lower == {x \in DOMAIN complete_data : x < position}
    IN  IF lower = {} THEN 0 ELSE Max(lower)

\* The for loop over range(1, max(complete_data) + 1), from `position` on:
\* the list after the appends, and the exception that ended the loop, if any.
RECURSIVE FillLoop(_, _, _, _, _)
FillLoop(position, last, data, complete_data, key) ==
    IF position > last THEN [raised |-> "none", data |-> data]
    ELSE IF position \in DOMAIN complete_data
         THEN FillLoop(position + 1, last, data, complete_data, key)
         ELSE LET prev_position == prev_position_of(complete_data, position)
              IN  IF prev_position \notin DOMAIN complete_data
                  THEN [raised |-> "KeyError", data |-> data]
                  ELSE FillLoop(position + 1, last,
                                Append(data, ("position" :> str(position))
                                             @@ (key :> complete_data[prev_position])),
                                complete_data, key)

\* check_period_data_missing(data, key) on the list object h[r]. The list is
\* sorted and appended to in place and the reference itself is returned.
check_period_data_missing(h, r, key) ==
    LET sorted == SortByPosition(h[r])
        complete_data == complete_data_of(sorted, key)
    IN  IF complete_data = <<>>
        THEN [raised |-> "ValueError", ref |-> 0, heap |-> [h EXCEPT ![r] = sorted]]
        ELSE LET loop == FillLoop(1, Max(DOMAIN complete_data), sorted,
                                  complete_data, key)
             IN  IF loop.raised # "none"
                 THEN [raised |-> loop.raised, ref |-> 0,
                       heap |-> [h EXCEPT ![r] = loop.data]]
                 ELSE [raised |-> "none", ref |-> r,
                       heap |-> [h EXCEPT ![r] = SortByPosition(loop.data)]]

(***************************************************************************)
(* get_Period_data                                                         *)
(***************************************************************************)
\* [{'position': str(i + 1), key: data[-1][key]} for i in range(length - len(data))]
Padding(data, key, length) ==
    [i \in 1 .. (IF length > Len(data) THEN length - Len(data) ELSE 0) |->
        ("position" :> str((i - 1) + 1)) @@ (key :> data[Len(data)][key])]

\* get_Period_data(Period, length) given the Point children of the Period, each
\* a sequence of <<tag, text>> children. The list of dicts is a fresh object;
\* `reconciled` records its contents as check_period_data_missing returned it.
get_Period_data(h, points, length) ==
    LET r == Len(h) + 1
        data == [i \in DOMAIN points |-> dict(points[i])]
        h0 == Append(h, data)
    IN  IF data = <<>> \/ Len(keys(points[1])) < 2
        THEN [raised |-> "IndexError", ref |-> 0, heap |-> h0, reconciled |-> <<>>]
        ELSE LET key == keys(points[1])[2]
                 chk == check_period_data_missing(h0, r, key)
             IN  IF chk.raised # "none"
                 THEN [raised |-> chk.raised, ref |-> 0, heap |-> chk.heap,
                       reconciled |-> <<>>]
                 ELSE LET got == chk.heap[chk.ref]
                      IN  [raised |-> "none", ref |-> chk.ref,
                           heap |-> IF length # Len(got)
                                    THEN [chk.heap EXCEPT ![chk.ref] =
                                             got \o Padding(got, key, length)]
                                    ELSE chk.heap,
                           reconciled |-> got]

(***************************************************************************)
(* Timestamps are minutes since 2023-01-01T00:00; months are numbered from *)
(* 1 = January 2023 (month 0 is December 2022).                            *)
(***************************************************************************)
MinutesPerDay == 24 * 60

YearOfMonth(m) == 2023 + ((m - 1) \div 12)

IsLeap(y) == (y % 4 = 0 /\ y % 100 # 0) \/ y % 400 = 0

DaysInMonth(m) ==
    LET mon == ((m - 1) % 12) + 1
    IN  IF mon = 2 THEN (IF IsLeap(YearOfMonth(m)) THEN 29 ELSE 28)
        ELSE IF mon \in {4, 6, 9, 11} THEN 30 ELSE 31

\* The day number of the first day of month m.
RECURSIVE FirstDay(_)
FirstDay(m) ==
    IF m = 1 THEN 0
    ELSE IF m < 1 THEN FirstDay(m + 1) - DaysInMonth(m)
    ELSE FirstDay(m - 1) + DaysInMonth(m - 1)

LastDay(m) == FirstDay(m) + DaysInMonth(m) - 1

DayOf(t) == IF t >= 0 THEN t \div MinutesPerDay
            ELSE -((-t + MinutesPerDay - 1) \div MinutesPerDay)

TimeOfDay(t) == t - DayOf(t) * MinutesPerDay

RECURSIVE MonthFrom(_, _)
MonthFrom(m, day) ==
    IF day < FirstDay(m) THEN MonthFrom(m - 1, day)
    ELSE IF day > LastDay(m) THEN MonthFrom(m + 1, day)
    ELSE m

MonthOf(t) == MonthFrom(1, DayOf(t))

\* Maps response_xml resolutions to pandas frequency strings ("12M" is twelve
\* of the unit "M", pandas' month-end offset; "D" and "min" are fixed steps).
resolution_map ==
    [P1Y   |-> [n |-> 12, unit |-> "M"],
     P1M   |-> [n |-> 1,  unit |-> "M"],
     P7D   |-> [n |-> 7,  unit |-> "D"],
     P1D   |-> [n |-> 1,  unit |-> "D"],
     PT60M |-> [n |-> 60, unit |-> "min"],
     PT30M |-> [n |-> 30, unit |-> "min"],
     PT15M |-> [n |-> 15, unit |-> "min"],
     PT1M  |-> [n |-> 1,  unit |-> "min"]]

\* The length of a fixed-step frequency in minutes.
Stride(freq) == IF freq.unit = "D" THEN freq.n * MinutesPerDay ELSE freq.n

\* pandas MonthEnd: is_on_offset, rollforward, rollback and n applications.
IsMonthEnd(t) == DayOf(t) = LastDay(MonthOf(t))

MonthEndAt(m, t) == LastDay(m) * MinutesPerDay + TimeOfDay(t)

RollForward(t) == IF IsMonthEnd(t) THEN t ELSE MonthEndAt(MonthOf(t), t)

RollBack(t) == IF IsMonthEnd(t) THEN t ELSE MonthEndAt(MonthOf(t) - 1, t)

\* pd.date_range(start, end, freq=...): every timestamp of the frequency in
\* [start, end]. A fixed step counts on from start; the month-end offset first
\* rolls start forward (or, start being a month end, end back) to a month end.
date_range(start, end, freq) ==
    IF freq.unit = "M"
    THEN LET first == RollForward(start)
             last == IF IsMonthEnd(start) THEN RollBack(end) ELSE end
             m0 == MonthOf(first)
             count == IF last < first THEN 0
                      ELSE Cardinality({k \in 0 .. (MonthOf(last) - m0) \div freq.n :
                                          MonthEndAt(m0 + k * freq.n, first) <= last})
         IN  [k \in 1 .. count |-> MonthEndAt(m0 + (k - 1) * freq.n, first)]
    ELSE LET count == IF end < start THEN 0
                      ELSE ((end - start) \div Stride(freq)) + 1
         IN  [k \in 1 .. count |-> start + (k - 1) * Stride(freq)]

\* index[:-1] if index.size > 1 else index
DropLast(index) ==
    IF Len(index) > 1 THEN SubSeq(index, 1, Len(index) - 1) ELSE index

\* get_Period_index(Period) for the Period's timeInterval and resolution texts.
get_Period_index(start, end, resolution) ==
    IF resolution \notin DOMAIN resolution_map
    THEN [raised |-> "KeyError", index |-> <<>>]
    ELSE [raised |-> "none",
          index |-> DropLast(date_range(start, end, resolution_map[resolution]))]

\* get_index(Period) of an outage document: `resolution` is the list of the
\* resolution elements found, `now` the current time cut to the full hour.
get_index(start, end, resolution, now) ==
    IF resolution = <<>>
    THEN [raised |-> "none", index |-> <<now>>]
    ELSE IF resolution[1] \notin DOMAIN resolution_map
         THEN [raised |-> "KeyError", index |-> <<>>]
         ELSE [raised |-> "none",
               index |-> DropLast(date_range(start, end,
                                             resolution_map[resolution[1]]))]

(***************************************************************************)
(* unfold_node                                                             *)
(***************************************************************************)
\* A node is [tag, text, children]. The result is the pair (tag, value); the
\* value is the node's text or the dict of its children's results.
RECURSIVE unfold_node(_)
unfold_node(node) ==
    IF node.children = <<>>
    THEN <<node.tag, [leaf |-> TRUE, text |-> node.text]>>
    ELSE <<node.tag,
           [leaf |-> FALSE,
            map |-> dict([i \in DOMAIN node.children |->
                             unfold_node(node.children[i])])]>>

(***************************************************************************)
(* Period_to_DataFrame                                                     *)
(***************************************************************************)
\* pd.DataFrame(data=data, index=index): row i is data[i] at timestamp index[i].
DataFrame(data, index) ==
    [i \in DOMAIN index |-> [timestamp |-> index[i], record |-> data[i]]]

Period_to_DataFrame(start, end, resolution, points) ==
    LET idx == get_Period_index(start, end, resolution)
    IN  IF idx.raised # "none" THEN [raised |-> idx.raised, rows |-> <<>>]
        ELSE LET got == get_Period_data(<<>>, points, Len(idx.index))
             IN  IF got.raised # "none" THEN [raised |-> got.raised, rows |-> <<>>]
                 ELSE IF Len(got.heap[got.ref]) # Len(idx.index)
                      THEN [raised |-> "AssertionError", rows |-> <<>>]
                      ELSE [raised |-> "none",
                            rows |-> DataFrame(got.heap[got.ref], idx.index)]

(***************************************************************************)
(* The outage documents: get_data, get_resource, outage_dataframe          *)
(***************************************************************************)
\* index[i] of Python, i counted from 0: a negative i counts from the end.
PyIndex(index, i) ==
    IF i >= Len(index) \/ i < -Len(index)
    THEN [raised |-> "IndexError", value |-> 0]
    ELSE [raised |-> "none",
          value |-> IF i >= 0 THEN index[i + 1] ELSE index[Len(index) + i + 1]]

\* The k-th entry of the index for the k-th elem, whatever its position.
NewIndInOrder(index, data) ==
    LET at == [k \in DOMAIN data |-> PyIndex(index, k - 1)]
    IN  IF \E k \in DOMAIN at : at[k].raised # "none"
        THEN [raised |-> "IndexError", index |-> <<>>]
        ELSE [raised |-> "none", index |-> [k \in DOMAIN at |-> at[k].value]]

\* new_ind: for every elem of data, index[int(elem['position']) - 1].
NewInd(index, data) ==
    LET at == [k \in DOMAIN data |-> PyIndex(index, int(data[k]["position"]) - 1)]
    IN  IF \E k \in DOMAIN at : at[k].raised # "none"
        THEN [raised |-> "IndexError", index |-> <<>>]
        ELSE [raised |-> "none", index |-> [k \in DOMAIN at |-> at[k].value]]

Sentinel == [position |-> -1, quantity |-> 0]

get_data(start, end, resolution, now, points) ==
    LET idx == get_index(start, end, resolution, now)
        data == [i \in DOMAIN points |-> dict(points[i])]
    IN  IF idx.raised # "none"
        THEN [raised |-> idx.raised, index |-> <<>>, data |-> <<>>]
        ELSE IF data = <<>>
             THEN [raised |-> "none", index |-> idx.index, data |-> <<Sentinel>>]
             ELSE LET new_ind == NewInd(idx.index, data)
                  IN  [raised |-> new_ind.raised, index |-> new_ind.index,
                       data |-> IF new_ind.raised = "none" THEN data ELSE <<>>]

\* result.setdefault(key, []).insert(0, value)
setdefault_insert_front(result, key, value) ==
    (key :> <<value>> \o (IF key \in DOMAIN result THEN result[key] ELSE <<>>))
        @@ result

\* result.setdefault(key, []).append(value)
setdefault_append(result, key, value) ==
    (key :> Append(IF key \in DOMAIN result THEN result[key] ELSE <<>>, value))
        @@ result

\* The two nested loops over the entries and over entry.items(); `items` are
\* the <<key, value>> pairs still to come of the current entry.
RECURSIVE CollectItems(_, _)
CollectItems(result, items) ==
    IF items = <<>> THEN result
    ELSE CollectItems(setdefault_append(result, items[1][1], items[1][2]),
                      Tail(items))

\* entry.items() of dict(pairs): each key once, in order of first insertion,
\* with the value the dict holds for it.
items_of(pairs) ==
    [k \in DOMAIN keys(pairs) |-> <<keys(pairs)[k], dict(pairs)[keys(pairs)[k]]>>]

RECURSIVE CollectEntries(_, _)
CollectEntries(result, data) ==
    IF data = <<>> THEN result
    ELSE CollectEntries(CollectItems(result, items_of(data[1])), Tail(data))

\* ', '.join(values)
RECURSIVE join(_)
join(values) ==
    IF Len(values) = 1 THEN values[1]
    ELSE join(SubSeq(values, 1, Len(values) - 1)) \o ", " \o values[Len(values)]

Placeholder ==
    << <<"Asset_RegisteredResource.mRID", "">>,
       <<"Asset_RegisteredResource.name", "">>,
       <<"Asset_RegisteredResource.asset_PSRType.psrType", "">>,
       <<"Asset_RegisteredResource.location.name", "">> >>

\* get_resource(Period) given the Asset_RegisteredResource elements found, each
\* a sequence of <<tag, text>> children. With none found, find() gives None,
\* the body is skipped and the function returns None.
get_resource(entries) ==
    IF entries = <<>>
    THEN [is_none |-> TRUE, result |-> <<>>]
    ELSE LET points == entries
             found == [i \in DOMAIN points |->
                          [k \in DOMAIN points[i] |->
                              <<"Asset_RegisteredResource." \o points[i][k][1],
                                points[i][k][2]>>]]
             data == IF Len(found) = 0 THEN <<Placeholder>> ELSE found
             lists == CollectEntries(<<>>, data)
         IN  [is_none |-> FALSE,
              result |-> [key \in DOMAIN lists |-> join(lists[key])]]

\* outage_dataframe(Period): the rows and the resource columns assigned to them
\* (none when get_resource returned None).
outage_dataframe(start, end, resolution, now, points, entries) ==
    LET got == get_data(start, end, resolution, now, points)
    IN  IF got.raised # "none"
        THEN [raised |-> got.raised, rows |-> <<>>, resource |-> <<>>]
        ELSE IF Len(got.data) # Len(got.index)
             THEN [raised |-> "AssertionError", rows |-> <<>>, resource |-> <<>>]
             ELSE LET resource == get_resource(entries)
                  IN  [raised |-> "none",
                       rows |-> DataFrame(got.data, got.index),
                       resource |-> IF resource.is_none THEN <<>>
                                    ELSE resource.result]

(***************************************************************************)
(* Inputs.                                                                 *)
(***************************************************************************)
SeqsUpTo(S, n) == UNION {[1 .. k -> S] : k \in 0 .. n}

\* A <Point> element with a position and one value field.
PointNode(p, v) == << <<"position", str(p)>>, <<"quantity", v>> >>

PointNodes == {PointNode(p, v) : p \in 1 .. MaxPos, v \in Vals}

PointLists == SeqsUpTo(PointNodes, MaxPoints)

\* datetime.now() cut to the full hour: some hour of the calendar.
Hours == {60 * h : h \in {0, 30}}

\* Timestamps: a few multiples of every fixed step, on the step and one
\* minute past it, and the first and last midnights of the calendar's months.
Times ==
    {k * u + e : u \in {1, 15, 30, 60, MinutesPerDay, 7 * MinutesPerDay},
                 k \in 0 .. MaxSteps, e \in {0, 1}}
    \cup {FirstDay(m) * MinutesPerDay : m \in 1 .. MaxMonths}
    \cup {LastDay(m) * MinutesPerDay : m \in 1 .. MaxMonths}

Codes == DOMAIN resolution_map

\* The number of timestamps date_range would generate is kept below MaxIndex.
Generates(start, end, code) ==
    code \in Codes /\ resolution_map[code].unit # "M"
        => end - start < MaxIndex * Stride(resolution_map[code])

\* Document trees: leaves, nodes over "y" leaves, and roots over both.
Tags == {"a", "b"}

Leaves == {[tag |-> t, text |-> x, children |-> <<>>] : t \in Tags, x \in {"x", "y"}}

ChildLists(S) == SeqsUpTo(S, MaxChildren) \ {<<>>}

InnerNodes ==
    {[tag |-> t, text |-> " ", children |-> c] :
        t \in Tags,
        c \in ChildLists({[tag |-> g, text |-> "y", children |-> <<>>] : g \in Tags})}

Nodes ==
    Leaves \cup InnerNodes
    \cup {[tag |-> "r", text |-> " ", children |-> c] :
             c \in ChildLists(Leaves \cup InnerNodes)}

\* Asset_RegisteredResource elements: children with distinct tags, in any order.
ResourceFields == {<<t, x>> : t \in {"mRID", "name"}, x \in {"R1", "R2"}}

ResourceNodes ==
    {c \in SeqsUpTo(ResourceFields, Cardinality({f[1] : f \in ResourceFields})) :
        c # <<>> /\ \A i, j \in DOMAIN c : i # j => c[i][1] # c[j][1]}

ResourceLists == SeqsUpTo(ResourceNodes, MaxResources)

\* The intervals of the table builders: whole hours from 0, and one off step.
TableEnds == {60 * k : k \in 0 .. MaxSteps} \cup {61}

(***************************************************************************)
(* The caller.                                                             *)
(***************************************************************************)
Init ==
    /\ op = "idle"
    /\ arg = <<>>
    /\ heap = <<>>
    /\ ret = <<>>

Return ==
    /\ op # "idle"
    /\ op' = "idle"
    /\ arg' = <<>>
    /\ heap' = <<>>
    /\ ret' = <<>>

\* The caller builds the list of point dicts and passes it with the value key.
CheckPeriodDataMissing ==
    /\ op = "idle"
    /\ \E points \in PointLists :
          LET data == [i \in DOMAIN points |-> dict(points[i])]
              out == check_period_data_missing(<<data>>, 1, "quantity")
          IN  /\ arg' = [data |-> data, key |-> "quantity"]
              /\ heap' = out.heap
              /\ ret' = [raised |-> out.raised, ref |-> out.ref]
    /\ op' = "check_period_data_missing"

GetPeriodData ==
    /\ op = "idle"
    /\ \E points \in PointLists, length \in 0 .. MaxLength :
          LET out == get_Period_data(<<>>, points, length)
          IN  /\ arg' = [points |-> points, length |-> length]
              /\ heap' = out.heap
              /\ ret' = [raised |-> out.raised, ref |-> out.ref,
                         reconciled |-> out.reconciled]
    /\ op' = "get_Period_data"

GetPeriodIndex ==
    /\ op = "idle"
    /\ \E start \in Times, end \in Times, code \in Codes \cup {"PT5M"} :
          /\ Generates(start, end, code)
          /\ arg' = [start |-> start, end |-> end, resolution |-> code]
          /\ ret' = get_Period_index(start, end, code)
    /\ heap' = <<>>
    /\ op' = "get_Period_index"

GetIndex ==
    /\ op = "idle"
    /\ \E start \in {0, LastDay(1) * MinutesPerDay}, end \in Times, now \in Hours,
          resolution \in {<<>>} \cup {<<c>> : c \in Codes \cup {"PT5M"}} :
          /\ resolution # <<>> => Generates(start, end, resolution[1])
          /\ arg' = [start |-> start, end |-> end, resolution |-> resolution,
                     now |-> now]
          /\ ret' = get_index(start, end, resolution, now)
    /\ heap' = <<>>
    /\ op' = "get_index"

NextIndex ==
    \/ GetPeriodIndex
    \/ GetIndex
    \/ Return

SpecIndex == Init /\ [][NextIndex]_vars

UnfoldNode ==
    /\ op = "idle"
    /\ \E node \in Nodes :
          /\ arg' = node
          /\ ret' = unfold_node(node)
    /\ heap' = <<>>
    /\ op' = "unfold_node"

NextUnfold ==
    \/ UnfoldNode
    \/ Return

SpecUnfold == Init /\ [][NextUnfold]_vars

GetResource ==
    /\ op = "idle"
    /\ \E entries \in ResourceLists :
          /\ arg' = [entries |-> entries]
          /\ ret' = get_resource(entries)
    /\ heap' = <<>>
    /\ op' = "get_resource"

PeriodToDataFrame ==
    /\ op = "idle"
    /\ \E end \in TableEnds, code \in {"PT60M", "PT30M"}, points \in PointLists :
          /\ Generates(0, end, code)
          /\ arg' = [start |-> 0, end |-> end, resolution |-> code,
                     points |-> points]
          /\ ret' = Period_to_DataFrame(0, end, code, points)
    /\ heap' = <<>>
    /\ op' = "Period_to_DataFrame"

OutageDataframe ==
    /\ op = "idle"
    /\ \E end \in TableEnds, resolution \in {<<>>, <<"PT60M">>}, now \in Hours,
          points \in PointLists, entries \in SeqsUpTo({<<<<"mRID", "R1">>>>}, 1) :
          /\ resolution = <<>> => end = 60
          /\ resolution # <<>> => now = 0
          /\ arg' = [start |-> 0, end |-> end, resolution |-> resolution,
                     now |-> now, points |-> points, entries |-> entries]
          /\ ret' = outage_dataframe(0, end, resolution, now, points, entries)
    /\ heap' = <<>>
    /\ op' = "outage_dataframe"

NextResource ==
    \/ GetResource
    \/ OutageDataframe
    \/ Return

SpecResource == Init /\ [][NextResource]_vars

NextTables ==
    \/ PeriodToDataFrame
    \/ OutageDataframe
    \/ Return

SpecTables == Init /\ [][NextTables]_vars

NextReconcile ==
    \/ CheckPeriodDataMissing
    \/ GetPeriodData
    \/ Return

SpecReconcile == Init /\ [][NextReconcile]_vars

(***************************************************************************)
(* Properties of the position reconciler.                                  *)
(***************************************************************************)
PositionsOf(data) == [i \in DOMAIN data |-> int(data[i]["position"])]

PositionSet(data) == Range(PositionsOf(data))

Distinct(s) == \A i, j \in DOMAIN s : i # j => s[i] # s[j]

\* The value the input carries at the greatest input position <= p.
ForwardValue(data, key, p) ==
    LET at == Max({q \in PositionSet(data) : q <= p})
        i == CHOOSE i \in DOMAIN data : int(data[i]["position"]) = at
    IN  data[i][key]

ArgData == [i \in DOMAIN arg.points |-> dict(arg.points[i])]

\* C1: for every Period with at least one Point (here: Points of distinct
\* positions) and every index length, a length below the highest position
\* included, the list get_Period_data returns holds exactly `length` records,
\* so that the assertion len(data) == len(index) of Period_to_DataFrame
\* cannot fail.
C1_ExactLength ==
    (/\ op = "get_Period_data"
     /\ Len(arg.points) >= 1
     /\ Distinct(PositionsOf(ArgData))
     /\ arg.length >= 1
     /\ ret.raised = "none")
        => Len(heap[ret.ref]) = arg.length

\* C2: for a sparse set of Points that contains position 1 and whose highest
\* position is at most `length`, get_Period_data returns positions 1..length,
\* each once and ascending, the value at p being the value of the greatest
\* input position <= p (gaps forward-filled, the tail numbered on after the
\* highest position and repeating its value).
C2_DenseForwardFill ==
    (/\ op = "get_Period_data"
     /\ Len(arg.points) >= 1
     /\ Distinct(PositionsOf(ArgData))
     /\ 1 \in PositionSet(ArgData)
     /\ Max(PositionSet(ArgData)) <= arg.length)
        => /\ ret.raised = "none"
           /\ PositionsOf(heap[ret.ref]) = [p \in 1 .. arg.length |-> p]
           /\ \A p \in 1 .. arg.length :
                 heap[ret.ref][p]["quantity"] = ForwardValue(ArgData, "quantity", p)

\* C3: missing positions never surface as an error: for every non-empty list
\* of Point records with positions >= 1, whichever positions of 1..max are
\* absent (position 1 included), check_period_data_missing returns, and its
\* result has a record for every position from 1 to the highest one present.
C3_NeverRaises ==
    (op = "check_period_data_missing" /\ Len(arg.data) >= 1)
        => /\ ret.raised = "none"
           /\ PositionSet(heap[ret.ref]) = 1 .. Max(PositionSet(arg.data))

\* C3 as the code has it: the same, for the lists that contain position 1;
\* a list without position 1 ends in a KeyError instead of a result.
C3_NoErrorWhenFirstPresent ==
    (op = "check_period_data_missing" /\ Len(arg.data) >= 1)
        => IF 1 \in PositionSet(arg.data)
           THEN /\ ret.raised = "none"
                /\ PositionSet(heap[ret.ref]) = 1 .. Max(PositionSet(arg.data))
                /\ \A p \in 1 .. Max(PositionSet(arg.data)) :
                      p \notin PositionSet(arg.data)
                          => \E i \in DOMAIN heap[ret.ref], j \in DOMAIN arg.data :
                                /\ heap[ret.ref][i]["position"] = str(p)
                                /\ int(arg.data[j]["position"]) =
                                      Max({q \in PositionSet(arg.data) : q < p})
                                /\ heap[ret.ref][i][arg.key] = arg.data[j][arg.key]
           ELSE ret.raised = "KeyError"

\* A list with position 1 and an interior gap was reconciled.
C3_Witness ==
    /\ op = "check_period_data_missing"
    /\ 1 \in PositionSet(arg.data)
    /\ \E p \in 2 .. MaxPos : p \notin PositionSet(arg.data)
                              /\ p < Max(PositionSet(arg.data))
    /\ ret.raised = "none"
    /\ Len(heap[ret.ref]) > Len(arg.data)

\* C10: gap-filling does not mutate its input: after check_period_data_missing
\* returns, the list the caller passed in holds the same records in the same
\* order as before the call; the tail padding of get_Period_data leaves the
\* reconciled list it received unchanged.
C10_InputNotMutated ==
    /\ (op = "check_period_data_missing" /\ ret.raised = "none")
          => heap[1] = arg.data
    /\ (op = "get_Period_data" /\ ret.raised = "none")
          => heap[ret.ref] = ret.reconciled

(***************************************************************************)
(* Properties of the time index.                                           *)
(***************************************************************************)
\* t moved on by j calendar months (the day of the month kept, or the last
\* day of a shorter month).
AddMonths(t, j) ==
    LET m == MonthOf(t)
        d == DayOf(t) - FirstDay(m)
        dd == IF d < DaysInMonth(m + j) THEN d ELSE DaysInMonth(m + j) - 1
    IN  (FirstDay(m + j) + dd) * MinutesPerDay + TimeOfDay(t)

\* start + k*s for the step s of a resolution code.
StepFrom(start, code, k) ==
    IF resolution_map[code].unit = "M"
    THEN AddMonths(start, k * resolution_map[code].n)
    ELSE start + k * Stride(resolution_map[code])

\* The timestamps start + k*s, k >= 0, that are not after end.
Generated(start, end, code) ==
    {t \in {StepFrom(start, code, k) : k \in 0 .. MaxIndex + MaxMonths} : t <= end}

Ascending(index) == \A i, j \in DOMAIN index : i < j => index[i] < index[j]

\* C6: for every start <= end and every code of the table, with step s, the
\* index of get_Period_index is half-open: exactly the timestamps start + k*s
\* strictly before end; the one generated timestamp dropped is end; only a
\* one-element sequence keeps its element, so the index is never empty.
C6_HalfOpen ==
    (/\ op = "get_Period_index"
     /\ arg.start <= arg.end
     /\ arg.resolution \in Codes)
        => LET gen == Generated(arg.start, arg.end, arg.resolution)
           IN  /\ ret.raised = "none"
               /\ ret.index # <<>>
               /\ Ascending(ret.index)
               /\ Range(ret.index) = IF Cardinality(gen) = 1 THEN gen
                                     ELSE {t \in gen : t < arg.end}
               /\ Cardinality(gen) > 1 => gen \ Range(ret.index) = {arg.end}

(***************************************************************************)
(* Properties of unfold_node.                                              *)
(***************************************************************************)
ChildTags(node) == {node.children[i].tag : i \in DOMAIN node.children}

LastWithTag(node, t) ==
    Max({i \in DOMAIN node.children : node.children[i].tag = t})

\* C8: unfold_node returns (tag, text) for a node without children; otherwise
\* (tag, mapping), the mapping's keys being exactly the distinct child tags and
\* the value under a tag the decomposition of the last child carrying it.
C8_UnfoldLastWins ==
    op = "unfold_node"
        => /\ ret[1] = arg.tag
           /\ IF arg.children = <<>>
              THEN ret[2] = [leaf |-> TRUE, text |-> arg.text]
              ELSE /\ ~ret[2].leaf
                   /\ DOMAIN ret[2].map = ChildTags(arg)
                   /\ \A t \in ChildTags(arg) :
                         ret[2].map[t] =
                            unfold_node(arg.children[LastWithTag(arg, t)])[2]

\* A node was unfolded in which two children share a tag and differ below it.
C8_Witness ==
    /\ op = "unfold_node"
    /\ \E i, j \in DOMAIN arg.children :
          /\ i < j
          /\ arg.children[i].tag = arg.children[j].tag
          /\ unfold_node(arg.children[i]) # unfold_node(arg.children[j])
          /\ ret[2].map[arg.children[j].tag] = unfold_node(arg.children[j])[2]

(***************************************************************************)
(* Properties of get_resource.                                             *)
(***************************************************************************)
\* The texts of the children tagged f, entry by entry in document order.
RECURSIVE FieldValues(_, _)
FieldValues(entries, f) ==
    IF entries = <<>> THEN <<>>
    ELSE LET e == entries[1]
             here == {k \in DOMAIN e : e[k][1] = f}
         IN  (IF here = {} THEN <<>> ELSE <<e[CHOOSE k \in here : TRUE][2]>>)
                 \o FieldValues(Tail(entries), f)

RECURSIVE CommaSeparated(_)
CommaSeparated(values) ==
    IF Len(values) = 1 THEN values[1]
    ELSE values[1] \o ", " \o CommaSeparated(Tail(values))

CarriedTags(entries) ==
    UNION {{entries[i][k][1] : k \in DOMAIN entries[i]} : i \in DOMAIN entries}

\* C4: with zero Asset_RegisteredResource entries the metadata of get_resource,
\* and so the table of outage_dataframe, holds the four placeholder fields,
\* each with the empty string.
C4_ZeroResourcePlaceholders ==
    /\ (op = "get_resource" /\ arg.entries = <<>>)
          => (~ret.is_none /\ ret.result = dict(Placeholder))
    /\ (op = "outage_dataframe" /\ arg.entries = <<>> /\ ret.raised = "none")
          => ret.resource = dict(Placeholder)

\* C7: with n >= 1 entries, for every field f carried by at least one entry,
\* Asset_RegisteredResource.f is the values of f of the entries in document
\* order joined with ", ": none dropped, duplicated or reordered.
C7_JoinInDocumentOrder ==
    (op = "get_resource" /\ Len(arg.entries) >= 1)
        => /\ ~ret.is_none
           /\ DOMAIN ret.result =
                 {"Asset_RegisteredResource." \o f : f \in CarriedTags(arg.entries)}
           /\ \A f \in CarriedTags(arg.entries) :
                 ret.result["Asset_RegisteredResource." \o f] =
                    CommaSeparated(FieldValues(arg.entries, f))

\* Two entries with mRID R1 and R2 were merged into "R1, R2".
C7_Witness ==
    /\ op = "get_resource"
    /\ arg.entries = << << <<"mRID", "R1">> >>, << <<"mRID", "R2">> >> >>
    /\ ret.result["Asset_RegisteredResource.mRID"] = "R1, R2"

(***************************************************************************)
(* Properties of the tables.                                               *)
(***************************************************************************)
Timestamps(rows) == [i \in DOMAIN rows |-> rows[i].timestamp]

NonDescending(index) == \A i, j \in DOMAIN index : i < j => index[i] <= index[j]

\* C5: a document with zero Points, with or without a declared resolution,
\* gives one index entry and the one sentinel record (position -1, quantity
\* 0): the assertion of outage_dataframe holds and a one-row table results.
C5_ZeroPointsOneRow ==
    (op = "outage_dataframe" /\ arg.points = <<>>)
        => /\ ret.raised = "none"
           /\ Len(ret.rows) = 1
           /\ ret.rows[1].record = Sentinel

=============================================================================
